---- MODULE Spec2Model ----
(***************************************************************************)
(* Model of main.py (Vetra AI + Syra AI): the api_keys / audit_logs tables, *)
(* the session, the Syra memories and the /register, /create_key and /ask  *)
(* handlers.  A handler is cut at its awaits on the database: between two   *)
(* awaits other requests, the clock and the administrator may act.         *)
(***************************************************************************)
EXTENDS Integers, Sequences, FiniteSets, Bags, TLC

VARIABLES
    now,           \* int(time.time())
    users,         \* table users: sequence of rows
    api_keys,      \* table api_keys: sequence of rows, in id order
    audit_logs,    \* table audit_logs: sequence of rows, in id order
    session,       \* request.session["user_email"] of each client
    short_memory,  \* syra_brain.short_memory
    long_memory,   \* syra_brain.long_memory
    nkeys,         \* number of tokens drawn by generate_api_key so far
    started,       \* number of requests received so far, on any route
    req,           \* the /ask requests in flight: a bag of activations of ask
    hits,          \* the limiter's counters, per caller and route
    FERNET_KEY     \* the key of this process: the number of keys generated so far

vars == <<now, users, api_keys, audit_logs, session, short_memory, long_memory,
          nkeys, started, req, hits, FERNET_KEY>>

-----------------------------------------------------------------------------
(* Bounds of the model *)

MaxRequests == 3      \* requests received in one behaviour, on any route
MaxInFlight == 2      \* /ask requests running at the same time
MaxHeadroom == 1      \* quota left on the credential of an earlier run
MaxBurst == 6         \* requests received in one behaviour of the limited routes
MaxKeys == 1          \* Fernet keys generated after the first start

-----------------------------------------------------------------------------
(* Configuration, main.py:27-29 and the literals of the handlers *)

API_KEY_MAX_USES == 1000
API_KEY_EXPIRE_DAYS == 30
MAX_PROMPT_LEN == 4000
SHORT_MEMORY_LEN == 10
VETRA_ECHO_LEN == 200
TOKEN_RANDOM_BYTES == 28
BCRYPT_MAX_BYTES == 72

ExpireSeconds == API_KEY_EXPIRE_DAYS * 24 * 60 * 60

\* secrets.token_urlsafe(n): n bytes in unpadded base64
TokenUrlsafeLen(n) == (n * 4 + 2) \div 3

Min(a, b) == IF a < b THEN a ELSE b
Max(a, b) == IF a > b THEN a ELSE b

\* The clock values the model observes: the start of this run, and the second
\* after the expiry instant of a credential issued at time 0.  A credential
\* issued at StartTime is then at its expiry instant, not past it.
Times == {1, ExpireSeconds + 1}
StartTime == CHOOSE t \in Times : \A u \in Times : t <= u

Clients == {"10.0.0.1"}

-----------------------------------------------------------------------------
(* Text: a str is a sequence of one-character strings *)

UpperChars == <<"A","B","C","D","E","F","G","H","I","J","K","L","M",
                "N","O","P","Q","R","S","T","U","V","W","X","Y","Z">>
LowerChars == <<"a","b","c","d","e","f","g","h","i","j","k","l","m",
                "n","o","p","q","r","s","t","u","v","w","x","y","z">>

\* the lower-case letter of each upper-case letter
ToLower ==
    [ch \in {UpperChars[i] : i \in 1..Len(UpperChars)} |->
        LowerChars[CHOOSE i \in 1..Len(UpperChars) : UpperChars[i] = ch]]

LowerChar(ch) == IF ch \in DOMAIN ToLower THEN ToLower[ch] ELSE ch

\* str.lower(), as a sequence
Lower(s) == SubSeq([i \in 1..Len(s) |-> LowerChar(s[i])], 1, Len(s))

\* s[::-1]
Reverse(s) == [i \in 1..Len(s) |-> s[Len(s) + 1 - i]]

\* s[:n]
Prefix(s, n) == SubSeq(s, 1, Min(Len(s), n))

\* s[-n:]
Suffix(s, n) == SubSeq(s, Max(1, Len(s) - n + 1), Len(s))

\* w occurs in s starting at position i, for 1 <= i <= Len(s) - Len(w) + 1
WordAt(s, w, i) == \A k \in 1..Len(w) : s[i + k - 1] = w[k]

\* re.search("(w1|w2|...)", s)
SearchAny(ws, s) ==
    LET n == Len(s) IN
    \E w \in ws : \E i \in 1..(n - Len(w) + 1) : WordAt(s, w, i)

\* re.search("(a1|a2).*(b1|b2)", s): "." does not match a newline
SearchThen(as, bs, s) ==
    LET n == Len(s) IN
    \E a \in as : \E i \in 1..(n - Len(a) + 1) :
        /\ WordAt(s, a, i)
        /\ \E b \in bs : \E j \in (i + Len(a))..(n - Len(b) + 1) :
              /\ WordAt(s, b, j)
              /\ \A k \in (i + Len(a))..(j - 1) : s[k] # "\n"

W_ignore == <<"i","g","n","o","r","e">>
W_bypass == <<"b","y","p","a","s","s">>
W_rules == <<"r","u","l","e","s">>
W_system == <<"s","y","s","t","e","m">>
W_hack == <<"h","a","c","k">>
W_crack == <<"c","r","a","c","k">>
W_steal == <<"s","t","e","a","l">>
W_ddos == <<"d","d","o","s">>
W_admin == <<"a","d","m","i","n">>
W_root == <<"r","o","o","t">>
W_password == <<"p","a","s","s","w","o","r","d">>

\* BLOCK_PATTERNS, searched in the lower-cased prompt
BLOCK_PATTERNS(s) ==
    \/ SearchThen({W_ignore, W_bypass}, {W_rules, W_system}, s)
    \/ SearchAny({W_hack, W_crack, W_steal, W_ddos}, s)
    \/ SearchAny({W_admin, W_root, W_password}, s)

HTTPException(status, detail) == [status |-> status, detail |-> detail]
NoError == [status |-> 0, detail |-> ""]

\* a filter whose length limit is exclusive
check_prompt_inclusive(prompt) ==
    IF Len(prompt) >= MAX_PROMPT_LEN
    THEN HTTPException(400, "Prompt too long")
    ELSE IF BLOCK_PATTERNS(Lower(prompt))
         THEN HTTPException(400, "Prompt blocked by policy")
         ELSE NoError

\* check_prompt: the exception it raises, or NoError
check_prompt(prompt) ==
    IF Len(prompt) > MAX_PROMPT_LEN
    THEN HTTPException(400, "Prompt too long")
    ELSE IF BLOCK_PATTERNS(Lower(prompt))
         THEN HTTPException(400, "Prompt blocked by policy")
         ELSE NoError

-----------------------------------------------------------------------------
(* Tokens and digests *)

TOKEN_PREFIX == <<"v","e","t","r","a","_">>

\* generate_api_key: n stands for the n-th draw of secrets.token_urlsafe(28),
\* 38 URL-safe characters; distinct draws are distinct
generate_api_key(n) == TOKEN_PREFIX \o [i \in 1..TokenUrlsafeLen(TOKEN_RANDOM_BYTES) |-> n]

\* bcrypt: the digest embeds the salt and depends on the first 72 bytes
BcryptSum(salt, plain) == <<salt, Prefix(plain, BCRYPT_MAX_BYTES)>>

\* hash_key, with the salt bcrypt.gensalt() drew (distinct draws are distinct)
hash_key(plain, salt) == [salt |-> salt, sum |-> BcryptSum(salt, plain)]

\* a comparison that looks at the prefix of the token only
verify_key_prefix(plain, hashed) ==
    Prefix(plain, Len(TOKEN_PREFIX)) = Prefix(hashed.sum[2], Len(TOKEN_PREFIX))

\* verify_key
verify_key(plain, hashed) == BcryptSum(hashed.salt, plain) = hashed.sum

-----------------------------------------------------------------------------
(* Payload cipher: Fernet over the JSON text of the metadata *)

\* json.dumps of a dict with str keys: the text lists the members
json_dumps(data) == {<<k, data[k]>> : k \in DOMAIN data}

\* json.loads
json_loads(text) ==
    [k \in {m[1] : m \in text} |-> (CHOOSE m \in text : m[1] = k)[2]]

\* Fernet(key).encrypt(text).  sealed: version, timestamp, IV and ciphertext,
\* which only the key opens; mac: the HMAC of sealed under the key; slack:
\* the bits of the last base64 character of the token that carry no data (the
\* token's length is no multiple of 3 for a text of up to 31 bytes), which
\* the encoder leaves at 0
FernetEncrypt(key, text) ==
    [sealed |-> <<key, text>>, mac |-> <<key, text>>, slack |-> 0]

\* Fernet(key).decrypt(token): base64.urlsafe_b64decode drops the slack
\* bits; the token is opened when the HMAC under the key matches
FernetValid(key, token) == token.mac = token.sealed /\ token.sealed[1] = key

\* encrypt_data
encrypt_data(data) == FernetEncrypt(FERNET_KEY, json_dumps(data))

\* decrypt_data: the dict, or InvalidToken raised
decrypt_data(blob) ==
    IF FernetValid(FERNET_KEY, blob)
    THEN [raised |-> FALSE, value |-> json_loads(blob.sealed[2])]
    ELSE [raised |-> TRUE, value |-> << >>]

-----------------------------------------------------------------------------
(* Inputs *)

PromptOk == <<"h","i">>
PromptBlocked == <<"H","a","c","k">>
PromptLong == [i \in 1..(MAX_PROMPT_LEN + 1) |-> "a"]
Prompts == {PromptOk, PromptBlocked, PromptLong}

\* texts at the limits of the filter
PromptMax == [i \in 1..MAX_PROMPT_LEN |-> "a"]
PromptLongBlocked == W_hack \o [i \in 1..(MAX_PROMPT_LEN - 3) |-> "a"]
PromptIgnore == <<"i","g","n","o","r","e"," ","t","h","e"," ","r","u","l","e","s">>
PromptWeather == <<"w","h","a","t"," ","i","s"," ","t","h","e"," ","w","e","a","t","h","e","r">>
PromptTwoLines == <<"B","y","p","a","s","s","\n","t","h","e"," ","s","y","s","t","e","m">>
FilterPrompts == Prompts \cup {PromptMax, PromptLongBlocked, PromptIgnore,
                               PromptWeather, PromptTwoLines}

\* Authorization header: absent or empty, a token drawn so far, or a token
\* that is never issued
NoKey == <<>>
ForgedKey == generate_api_key(0)
Keys(n) == {NoKey, ForgedKey} \cup {generate_api_key(i) : i \in 1..n}

\* plaintexts near the tokens drawn so far: a token followed by more than
\* bcrypt reads, and a token without its last character
Padding == [i \in 1..BCRYPT_MAX_BYTES |-> "="]
NearKeys(n) ==
    {generate_api_key(i) \o Padding : i \in 0..n}
        \cup {Prefix(generate_api_key(i), Len(generate_api_key(i)) - 1) : i \in 0..n}

EmailA == <<"a","@","x">>
\* None, for a str, for an id and for the session's "user_email"
NoEmail == <<>>
NoId == 0
NoSession == <<>>
EmailInputs == {<<"B","@","x">>}

-----------------------------------------------------------------------------
(* Tables *)

\* an INSERT into a table whose uses column defaults to 1
NewApiKeyCounted(id, email, key_hash, created, expires, bound_ip, max_uses) ==
    [id |-> id, email |-> email, key_hash |-> key_hash, uses |-> 1,
     max_uses |-> max_uses, revoked |-> FALSE, expires_at |-> expires,
     created |-> created, bound_ip |-> bound_ip]

\* INSERT INTO api_keys: the columns of main.py:211-212, the defaults of 77-87
NewApiKey(id, email, key_hash, created, expires, bound_ip, max_uses) ==
    [id |-> id, email |-> email, key_hash |-> key_hash, uses |-> 0,
     max_uses |-> max_uses, revoked |-> FALSE, expires_at |-> expires,
     created |-> created, bound_ip |-> bound_ip]

\* SELECT * FROM api_keys WHERE revoked=false
SelectActive(keys) == SelectSeq(keys, LAMBDA r : r.revoked = FALSE)

\* an UPDATE that also renews the credential at each use
IncrementUsesRenewing(keys, id) ==
    [i \in 1..Len(keys) |->
        IF keys[i].id = id
        THEN [keys[i] EXCEPT !.uses = @ + 1, !.expires_at = @ + 1]
        ELSE keys[i]]

\* UPDATE api_keys SET uses=uses+1 WHERE id=$1
IncrementUses(keys, id) ==
    [i \in 1..Len(keys) |->
        IF keys[i].id = id THEN [keys[i] EXCEPT !.uses = @ + 1] ELSE keys[i]]

\* an INSERT that a retry repeats
record_audit_twice(logs, api_key_id, email, endpoint, meta, ts) ==
    LET row(n) == [id |-> n, api_key_id |-> api_key_id, email |-> email,
                   endpoint |-> endpoint, meta |-> encrypt_data(meta), ts |-> ts]
    IN Append(Append(logs, row(Len(logs) + 1)), row(Len(logs) + 2))

\* an upsert keyed by the credential instead of an INSERT
record_audit_upsert(logs, api_key_id, email, endpoint, meta, ts) ==
    LET old == SelectSeq(logs, LAMBDA a : a.api_key_id # api_key_id)
    IN Append(old, [id |-> Len(old) + 1, api_key_id |-> api_key_id, email |-> email,
                    endpoint |-> endpoint, meta |-> encrypt_data(meta), ts |-> ts])

\* record_audit: the table after the INSERT
record_audit(logs, api_key_id, email, endpoint, meta, ts) ==
    Append(logs, [id |-> Len(logs) + 1, api_key_id |-> api_key_id, email |-> email,
                  endpoint |-> endpoint, meta |-> encrypt_data(meta), ts |-> ts])

\* dict.get(user, [])
Memory(mem, user) == IF user \in DOMAIN mem THEN mem[user] ELSE <<>>

\* SyraAI.respond: the two memories after the call
SyraShort(mem, user, prompt) ==
    [u \in DOMAIN mem \cup {user} |->
        IF u = user THEN Suffix(Append(Memory(mem, user), prompt), SHORT_MEMORY_LEN)
        ELSE mem[u]]

SyraLong(mem, user, prompt) ==
    [u \in DOMAIN mem \cup {user} |->
        IF u = user THEN Append(Memory(mem, user), prompt) ELSE mem[u]]

\* the body of the success response, main.py:164, 178, 251-256
SuccessPayload(email, prompt, t) ==
    [status |-> 200, detail |-> "OK",
     vetra |-> Prefix(prompt, VETRA_ECHO_LEN),
     syra |-> Reverse(prompt), reason |-> Len(prompt),
     user |-> email, time |-> t]

\* an exception that is no HTTPException reaches the caller as a 500
ServerError == HTTPException(500, "Internal Server Error")

-----------------------------------------------------------------------------
(* Rate limiter: limiter = Limiter(key_func=get_remote_address, ...) and the
   @limiter.limit decorators.  The decorator checks the limit before it calls
   the route; a route with a decorator is left to it by the middleware. *)

Routes == {"register", "create_key", "ask"}

WINDOW_SECONDS == 60
REGISTER_LIMIT == 5
CREATE_KEY_LIMIT == 3
ASK_LIMIT == 60

\* a route without its decorator falls under DEFAULT_RATE
RouteLimitDefault(route) == ASK_LIMIT

\* @limiter.limit("N/minute") of the route
RouteLimit(route) ==
    CASE route = "register" -> REGISTER_LIMIT
      [] route = "create_key" -> CREATE_KEY_LIMIT
      [] route = "ask" -> ASK_LIMIT

NoHits == [count |-> 0, reset |-> 0]

\* Allow(identityKey), the counter: a request at clock t opens a window of
\* WINDOW_SECONDS when none is open, and is counted in the open window
Hit(h, t) ==
    IF h.count = 0 \/ h.reset <= t
    THEN [count |-> 1, reset |-> t + WINDOW_SECONDS]
    ELSE [h EXCEPT !.count = @ + 1]

\* Allow(identityKey), the answer: the request counted by h is within the quota
Within(h, route) == h.count <= RouteLimit(route)

-----------------------------------------------------------------------------
(* Initial state *)

\* An activation of ask as it is received.  key, prompt: the inputs; rows,
\* valid, email, api_key_id: its locals; resp: the responses sent to the
\* caller; t0: the clock when it arrived; scanned: the verification loop ran;
\* incs: UPDATEs it executed; audits: ids of the audit rows it inserted;
\* auditFailed: its audit write raised; calls: times it invoked the brains.
NewRequest(key, prompt, t) ==
    [pc |-> "start", key |-> key, prompt |-> prompt, rows |-> <<>>,
     valid |-> FALSE, email |-> NoEmail, api_key_id |-> NoId, resp |-> <<>>,
     t0 |-> t, scanned |-> FALSE, incs |-> 0, audits |-> <<>>,
     auditFailed |-> FALSE, calls |-> 0]

\* the bag of requests with r replaced by r2
Becomes(r, r2) == (req (-) SetToBag({r})) (+) SetToBag({r2})

\* The tables outlive the process (CREATE TABLE IF NOT EXISTS, main.py:67-98):
\* a credential issued to EmailA by an earlier run, at time 0 with the first
\* token, used u times since.
EarlierCredential(u) ==
    [NewApiKey(1, EmailA, hash_key(generate_api_key(1), 1), 0, ExpireSeconds,
               "10.0.0.9", API_KEY_MAX_USES) EXCEPT !.uses = u]

EarlierUses == {API_KEY_MAX_USES - k : k \in 0..MaxHeadroom}

Init ==
    /\ now = StartTime
    /\ \/ /\ users = <<>>
          /\ api_keys = <<>>
          /\ nkeys = 0
       \/ /\ users = <<[id |-> 1, email |-> EmailA, name |-> "", created_at |-> 0]>>
          /\ \E u \in EarlierUses : api_keys = <<EarlierCredential(u)>>
          /\ nkeys = 1
    /\ audit_logs = <<>>
    /\ session = [c \in Clients |-> NoSession]
    /\ short_memory = << >>
    /\ long_memory = << >>
    /\ started = 0
    /\ req = EmptyBag
    /\ hits = [c \in Clients |-> [r \in Routes |-> NoHits]]
    /\ FERNET_KEY = 0

-----------------------------------------------------------------------------
(* The clock and the administrator *)

Tick ==
    /\ \E t \in Times : t > now /\ now' = t
    /\ UNCHANGED <<FERNET_KEY, users, api_keys, audit_logs, session, short_memory,
                   long_memory, nkeys, started, req>>

\* Revoke(credentialId): the administrative UPDATE that sets revoked
Revoke(id) ==
    /\ \E i \in 1..Len(api_keys) : api_keys[i].id = id /\ ~api_keys[i].revoked
    /\ api_keys' = [i \in 1..Len(api_keys) |->
                      IF api_keys[i].id = id
                      THEN [api_keys[i] EXCEPT !.revoked = TRUE]
                      ELSE api_keys[i]]
    /\ UNCHANGED <<FERNET_KEY, now, users, audit_logs, session, short_memory, long_memory,
                   nkeys, started, req>>

-----------------------------------------------------------------------------
(* POST /register *)

\* INSERT INTO users ... ON CONFLICT DO NOTHING (email is UNIQUE)
InsertUser(tbl, email, name, t) ==
    IF \E i \in 1..Len(tbl) : tbl[i].email = email
    THEN tbl
    ELSE Append(tbl, [id |-> Len(tbl) + 1, email |-> email, name |-> name,
                      created_at |-> t])

register(c, email) ==
    /\ started' = started + 1
    /\ users' = InsertUser(users, Lower(email), "", now)
    /\ session' = [session EXCEPT ![c] = <<Lower(email)>>]
    /\ UNCHANGED <<FERNET_KEY, now, api_keys, audit_logs, short_memory, long_memory, nkeys,
                   req>>

\* the INSERT raises: the session is not set
registerFail(c, email) ==
    /\ started' = started + 1
    /\ UNCHANGED <<FERNET_KEY, now, users, api_keys, audit_logs, session, short_memory,
                   long_memory, nkeys, req>>

-----------------------------------------------------------------------------
(* POST /create_key *)

\* email = request.session.get("user_email"); if not email
LoggedIn(c) == session[c] # NoSession /\ session[c][1] # <<>>

create_key_unauth(c) ==
    /\ ~LoggedIn(c)
    /\ started' = started + 1
    /\ UNCHANGED <<FERNET_KEY, now, users, api_keys, audit_logs, session, short_memory,
                   long_memory, nkeys, req>>

create_key(c) ==
    /\ LoggedIn(c)
    /\ started' = started + 1
    /\ LET key_plain == generate_api_key(nkeys + 1)
           key_hash == hash_key(key_plain, nkeys + 1)
       IN api_keys' = Append(api_keys,
                NewApiKey(Len(api_keys) + 1, session[c][1], key_hash, now,
                          now + ExpireSeconds, c, API_KEY_MAX_USES))
    /\ nkeys' = nkeys + 1
    /\ UNCHANGED <<FERNET_KEY, now, users, audit_logs, session, short_memory, long_memory,
                   req>>

\* the INSERT raises after the token was drawn
create_key_fail(c) ==
    /\ LoggedIn(c)
    /\ started' = started + 1
    /\ nkeys' = nkeys + 1
    /\ UNCHANGED <<FERNET_KEY, now, users, api_keys, audit_logs, session, short_memory,
                   long_memory, req>>

-----------------------------------------------------------------------------
(* POST /ask *)

\* the request ends with the response e
Finish(r, e) == [r EXCEPT !.pc = "done", !.resp = Append(@, e)]

\* the loop of main.py:225-237 over the fetched rows, at clock t: the locals
\* valid, email, api_key_id when it ends, and the exception it raised
KeyExpired == HTTPException(403, "API key expired")
LimitReached == HTTPException(403, "Usage limit reached")
InvalidKey == HTTPException(403, "Invalid API key")
MissingKey == HTTPException(401, "Missing API key")

\* a loop that is slack by one at the ceiling
MatchedRowErrorOffByOne(r, t) ==
    IF r.expires_at < t THEN KeyExpired
    ELSE IF r.uses > r.max_uses THEN LimitReached
    ELSE NoError

\* a loop that checks the quota before the expiry
MatchedRowErrorQuotaFirst(r, t) ==
    IF r.uses >= r.max_uses THEN LimitReached
    ELSE IF r.expires_at < t THEN KeyExpired
    ELSE NoError

\* main.py:233-236: what the loop raises at the row it matched
MatchedRowError(r, t) ==
    IF r.expires_at < t THEN KeyExpired
    ELSE IF r.uses >= r.max_uses THEN LimitReached
    ELSE NoError

RECURSIVE ScanFrom(_, _, _, _)
ScanFrom(rows, i, key, t) ==
    IF i > Len(rows)
    THEN [valid |-> FALSE, email |-> NoEmail, api_key_id |-> NoId, error |-> NoError]
    ELSE IF verify_key(key, rows[i].key_hash)
         THEN [valid |-> TRUE, email |-> rows[i].email, api_key_id |-> rows[i].id,
               error |-> MatchedRowError(rows[i], t)]
         ELSE ScanFrom(rows, i + 1, key, t)

VerifyRows(rows, key, t) == ScanFrom(rows, 1, key, t)

\* the header checked before the policy filter
AskEntryKeyFirst(key, prompt) ==
    IF key = NoKey THEN MissingKey ELSE check_prompt(prompt)

\* main.py:218-221: the policy filter, then the header; no await before them
AskEntry(key, prompt) ==
    LET e == check_prompt(prompt) IN
    IF e # NoError THEN e
    ELSE IF key = NoKey THEN MissingKey ELSE NoError

AskStart(key, prompt) ==
    /\ BagCardinality(req) < MaxInFlight
    /\ started' = started + 1
    /\ LET r == NewRequest(key, prompt, now)
           e == AskEntry(key, prompt)
       IN req' = req (+) SetToBag({IF e # NoError
                                   THEN Finish(r, e)
                                   ELSE [r EXCEPT !.pc = "fetch"]})
    /\ UNCHANGED <<FERNET_KEY, now, users, api_keys, audit_logs, session, short_memory,
                   long_memory, nkeys>>

\* main.py:224: rows = await c.fetch(...).  Of the fetched rows the request
\* keeps those the loop can stop at: it skips a row whose digest the key does
\* not verify without reading anything else of it.
Fetched(keys, key) ==
    SelectSeq(SelectActive(keys), LAMBDA r : verify_key(key, r.key_hash))

AskFetch(r) ==
    /\ r.pc = "fetch"
    /\ req' = Becomes(r, [r EXCEPT !.pc = "verify",
                                   !.rows = Fetched(api_keys, r.key)])
    /\ UNCHANGED <<FERNET_KEY, now, users, api_keys, audit_logs, session, short_memory,
                   long_memory, nkeys, started>>

AskFetchFail(r) ==
    /\ r.pc = "fetch"
    /\ req' = Becomes(r, Finish(r, ServerError))
    /\ UNCHANGED <<FERNET_KEY, now, users, api_keys, audit_logs, session, short_memory,
                   long_memory, nkeys, started>>

\* a handler that counts the use before it looks at expiry and quota
AskVerifyCounting(r) ==
    /\ r.pc = "verify"
    /\ LET v == VerifyRows(r.rows, r.key, now)
           r2 == [r EXCEPT !.scanned = TRUE, !.valid = v.valid,
                           !.email = v.email, !.api_key_id = v.api_key_id,
                           !.incs = IF v.valid THEN @ + 1 ELSE @]
       IN /\ req' = Becomes(r, IF v.error # NoError THEN Finish(r2, v.error)
                               ELSE IF ~v.valid THEN Finish(r2, InvalidKey)
                               ELSE [r2 EXCEPT !.pc = "audit"])
          /\ api_keys' = IF v.valid THEN IncrementUses(api_keys, v.api_key_id)
                         ELSE api_keys
    /\ UNCHANGED <<FERNET_KEY, now, users, audit_logs, session, short_memory,
                   long_memory, nkeys, started>>

\* main.py:225-240: the loop and the check of valid
AskVerify(r) ==
    /\ r.pc = "verify"
    /\ LET v == VerifyRows(r.rows, r.key, now)
           r2 == [r EXCEPT !.scanned = TRUE, !.valid = v.valid,
                           !.email = v.email, !.api_key_id = v.api_key_id]
       IN req' = Becomes(r, IF v.error # NoError THEN Finish(r2, v.error)
                            ELSE IF ~v.valid THEN Finish(r2, InvalidKey)
                            ELSE [r2 EXCEPT !.pc = "update"])
    /\ UNCHANGED <<FERNET_KEY, now, users, api_keys, audit_logs, session, short_memory,
                   long_memory, nkeys, started>>

\* a handler that goes on to the audit write without the UPDATE
AskUpdateSkipped(r) ==
    /\ r.pc = "update"
    /\ req' = Becomes(r, [r EXCEPT !.pc = "audit"])
    /\ UNCHANGED <<FERNET_KEY, now, users, api_keys, audit_logs, session, short_memory,
                   long_memory, nkeys, started>>

\* a handler that writes back the uses it read, plus one
AskUpdateStale(r) ==
    /\ r.pc = "update"
    /\ api_keys' = [i \in 1..Len(api_keys) |->
                      IF api_keys[i].id = r.api_key_id
                      THEN [api_keys[i] EXCEPT !.uses = r.rows[1].uses + 1]
                      ELSE api_keys[i]]
    /\ req' = Becomes(r, [r EXCEPT !.pc = "audit", !.incs = @ + 1])
    /\ UNCHANGED <<FERNET_KEY, now, users, audit_logs, session, short_memory, long_memory,
                   nkeys, started>>

\* a handler that invokes the brains before the audit write
AskUpdateThenBrains(r) ==
    /\ r.pc = "update"
    /\ api_keys' = IncrementUses(api_keys, r.api_key_id)
    /\ short_memory' = SyraShort(short_memory, r.email, r.prompt)
    /\ long_memory' = SyraLong(long_memory, r.email, r.prompt)
    /\ req' = Becomes(r, [r EXCEPT !.pc = "audit", !.incs = @ + 1, !.calls = @ + 1])
    /\ UNCHANGED <<FERNET_KEY, now, users, audit_logs, session, nkeys, started>>

\* main.py:242-243
AskUpdate(r) ==
    /\ r.pc = "update"
    /\ api_keys' = IncrementUses(api_keys, r.api_key_id)
    /\ req' = Becomes(r, [r EXCEPT !.pc = "audit", !.incs = @ + 1])
    /\ UNCHANGED <<FERNET_KEY, now, users, audit_logs, session, short_memory, long_memory,
                   nkeys, started>>

AskUpdateFail(r) ==
    /\ r.pc = "update"
    /\ req' = Becomes(r, Finish(r, ServerError))
    /\ UNCHANGED <<FERNET_KEY, now, users, api_keys, audit_logs, session, short_memory,
                   long_memory, nkeys, started>>

\* main.py:245
AskAudit(r) ==
    /\ r.pc = "audit"
    /\ audit_logs' = record_audit(audit_logs, r.api_key_id, r.email, "/ask",
                                  [prompt_len |-> Len(r.prompt)], now)
    /\ req' = Becomes(r,
                 [r EXCEPT !.pc = "respond",
                           !.audits = @ \o [i \in 1..(Len(audit_logs') - Len(audit_logs))
                                              |-> audit_logs'[Len(audit_logs) + i].id]])
    /\ UNCHANGED <<FERNET_KEY, now, users, api_keys, session, short_memory, long_memory,
                   nkeys, started>>

\* an audit write whose failure is swallowed
AskAuditFailSwallowed(r) ==
    /\ r.pc = "audit"
    /\ req' = Becomes(r, [r EXCEPT !.pc = "respond", !.auditFailed = TRUE])
    /\ UNCHANGED <<FERNET_KEY, now, users, api_keys, audit_logs, session, short_memory,
                   long_memory, nkeys, started>>

\* a handler that invokes the brains before the audit write
AskAuditFailAfterBrains(r) ==
    /\ r.pc = "audit"
    /\ short_memory' = SyraShort(short_memory, r.email, r.prompt)
    /\ long_memory' = SyraLong(long_memory, r.email, r.prompt)
    /\ req' = Becomes(r, Finish([r EXCEPT !.auditFailed = TRUE, !.calls = @ + 1],
                                ServerError))
    /\ UNCHANGED <<FERNET_KEY, now, users, api_keys, audit_logs, session, nkeys, started>>

\* record_audit raises: the exception leaves ask
AskAuditFail(r) ==
    /\ r.pc = "audit"
    /\ req' = Becomes(r, Finish([r EXCEPT !.auditFailed = TRUE], ServerError))
    /\ UNCHANGED <<FERNET_KEY, now, users, api_keys, audit_logs, session, short_memory,
                   long_memory, nkeys, started>>

\* main.py:248-256
AskRespond(r) ==
    /\ r.pc = "respond"
    /\ short_memory' = SyraShort(short_memory, r.email, r.prompt)
    /\ long_memory' = SyraLong(long_memory, r.email, r.prompt)
    /\ req' = Becomes(r, Finish([r EXCEPT !.calls = @ + 1],
                                SuccessPayload(r.email, r.prompt, now)))
    /\ UNCHANGED <<FERNET_KEY, now, users, api_keys, audit_logs, session, nkeys, started>>

-----------------------------------------------------------------------------
(* Specification *)

\* the caller has its response: the activation is over
Retire(r) ==
    /\ r.pc = "done"
    /\ req' = req (-) SetToBag({r})
    /\ UNCHANGED <<FERNET_KEY, now, users, api_keys, audit_logs, session, short_memory,
                   long_memory, nkeys, started>>

Requests == BagToSet(req)

\* A finished request is retired before anything else happens: Retire changes
\* no state of the program, so this removes no interleaving of it.
Quiet == \A r \in Requests : r.pc # "done"

\* Spec and SpecSeq follow the requests the limiter admits, and leave its
\* counters to SpecLimit.
Admitted == started < MaxRequests /\ UNCHANGED hits

Next ==
    \/ UNCHANGED hits /\ \E r \in Requests : Retire(r)
    \/ Quiet /\ UNCHANGED hits /\ Tick
    \/ Quiet /\ UNCHANGED hits /\ \E id \in 1..Len(api_keys) : Revoke(id)
    \/ Quiet /\ Admitted /\ \E c \in Clients, e \in EmailInputs : register(c, e)
    \/ Quiet /\ Admitted /\ \E c \in Clients, e \in EmailInputs : registerFail(c, e)
    \/ Quiet /\ Admitted /\ \E c \in Clients : create_key_unauth(c)
    \/ Quiet /\ Admitted /\ \E c \in Clients : create_key(c)
    \/ Quiet /\ Admitted /\ \E c \in Clients : create_key_fail(c)
    \/ Quiet /\ Admitted /\ \E k \in Keys(nkeys), p \in Prompts : AskStart(k, p)
    \/ Quiet /\ UNCHANGED hits /\ \E r \in Requests : AskFetch(r)
    \/ Quiet /\ UNCHANGED hits /\ \E r \in Requests : AskFetchFail(r)
    \/ Quiet /\ UNCHANGED hits /\ \E r \in Requests : AskVerify(r)
    \/ Quiet /\ UNCHANGED hits /\ \E r \in Requests : AskUpdate(r)
    \/ Quiet /\ UNCHANGED hits /\ \E r \in Requests : AskUpdateFail(r)
    \/ Quiet /\ UNCHANGED hits /\ \E r \in Requests : AskAudit(r)
    \/ Quiet /\ UNCHANGED hits /\ \E r \in Requests : AskAuditFail(r)
    \/ Quiet /\ UNCHANGED hits /\ \E r \in Requests : AskRespond(r)

Spec == Init /\ [][Next]_vars

\* The same program when the /ask requests run one after another: a request
\* is received only when no other is in flight.
NoneInFlight == req = EmptyBag

NextSeq ==
    \/ UNCHANGED hits /\ \E r \in Requests : Retire(r)
    \/ Quiet /\ UNCHANGED hits /\ Tick
    \/ Quiet /\ UNCHANGED hits /\ \E id \in 1..Len(api_keys) : Revoke(id)
    \/ Quiet /\ Admitted /\ \E c \in Clients, e \in EmailInputs : register(c, e)
    \/ Quiet /\ Admitted /\ \E c \in Clients, e \in EmailInputs : registerFail(c, e)
    \/ Quiet /\ Admitted /\ \E c \in Clients : create_key_unauth(c)
    \/ Quiet /\ Admitted /\ \E c \in Clients : create_key(c)
    \/ Quiet /\ Admitted /\ \E c \in Clients : create_key_fail(c)
    \/ NoneInFlight /\ Admitted /\ \E k \in Keys(nkeys), p \in Prompts : AskStart(k, p)
    \/ Quiet /\ UNCHANGED hits /\ \E r \in Requests : AskFetch(r)
    \/ Quiet /\ UNCHANGED hits /\ \E r \in Requests : AskFetchFail(r)
    \/ Quiet /\ UNCHANGED hits /\ \E r \in Requests : AskVerify(r)
    \/ Quiet /\ UNCHANGED hits /\ \E r \in Requests : AskUpdate(r)
    \/ Quiet /\ UNCHANGED hits /\ \E r \in Requests : AskUpdateFail(r)
    \/ Quiet /\ UNCHANGED hits /\ \E r \in Requests : AskAudit(r)
    \/ Quiet /\ UNCHANGED hits /\ \E r \in Requests : AskAuditFail(r)
    \/ Quiet /\ UNCHANGED hits /\ \E r \in Requests : AskRespond(r)

SpecSeq == Init /\ [][NextSeq]_vars

\* The process stops and starts again (main.py:23-31, 60-103): the tables
\* stay; the requests in flight, the memories of Syra and the counters of the
\* limiter are lost; FERNET_KEY and APP_SECRET are read from the environment,
\* or generated anew when it does not set them, and a session signed with
\* another APP_SECRET is not accepted.
Restart ==
    /\ FERNET_KEY' \in {FERNET_KEY} \cup {k \in {FERNET_KEY + 1} : k <= MaxKeys}
    /\ session' \in {session, [c \in Clients |-> NoSession]}
    /\ req' = EmptyBag
    /\ short_memory' = << >>
    /\ long_memory' = << >>
    /\ hits' = [c \in Clients |-> [r \in Routes |-> NoHits]]
    /\ UNCHANGED <<now, users, api_keys, audit_logs, nkeys, started>>

\* The program over several runs of the process, the /ask requests one after
\* another.
NextCipher ==
    \/ UNCHANGED hits /\ \E r \in Requests : Retire(r)
    \/ Quiet /\ Restart
    \/ Quiet /\ Admitted /\ \E c \in Clients, e \in EmailInputs : register(c, e)
    \/ Quiet /\ Admitted /\ \E c \in Clients : create_key(c)
    \/ NoneInFlight /\ Admitted /\ \E k \in Keys(nkeys), p \in Prompts : AskStart(k, p)
    \/ Quiet /\ UNCHANGED hits /\ \E r \in Requests : AskFetch(r)
    \/ Quiet /\ UNCHANGED hits /\ \E r \in Requests : AskVerify(r)
    \/ Quiet /\ UNCHANGED hits /\ \E r \in Requests : AskUpdate(r)
    \/ Quiet /\ UNCHANGED hits /\ \E r \in Requests : AskAudit(r)
    \/ Quiet /\ UNCHANGED hits /\ \E r \in Requests : AskRespond(r)

SpecCipher == Init /\ [][NextCipher]_vars

\* The limited routes /register and /create_key behind their decorators.
\* Allow: the decorator counts the request and calls the route.
Allow(c, route) ==
    /\ started < MaxBurst
    /\ Within(Hit(hits[c][route], now), route)
    /\ hits' = [hits EXCEPT ![c][route] = Hit(@, now)]

\* the decorator counts the request and raises RateLimitExceeded (429): the
\* route is not called
RateLimited(c, route) ==
    /\ started < MaxBurst
    /\ ~Within(Hit(hits[c][route], now), route)
    /\ hits' = [hits EXCEPT ![c][route] = Hit(@, now)]
    /\ started' = started + 1
    /\ UNCHANGED <<FERNET_KEY, now, users, api_keys, audit_logs, session, short_memory,
                   long_memory, nkeys, req>>

\* the clock within a window of the limiter and at its boundary
WindowTimes == {StartTime + WINDOW_SECONDS - 1, StartTime + WINDOW_SECONDS}

TickWindow ==
    /\ \E t \in WindowTimes : t > now /\ now' = t
    /\ UNCHANGED <<FERNET_KEY, users, api_keys, audit_logs, session, short_memory,
                   long_memory, nkeys, started, req, hits>>

NextLimit ==
    \/ TickWindow
    \/ \E c \in Clients, e \in EmailInputs : Allow(c, "register") /\ register(c, e)
    \/ \E c \in Clients, e \in EmailInputs : Allow(c, "register") /\ registerFail(c, e)
    \/ \E c \in Clients : Allow(c, "create_key") /\ create_key_unauth(c)
    \/ \E c \in Clients : Allow(c, "create_key") /\ create_key(c)
    \/ \E c \in Clients : Allow(c, "create_key") /\ create_key_fail(c)
    \/ \E c \in Clients, route \in {"register", "create_key"} : RateLimited(c, route)

SpecLimit == Init /\ [][NextLimit]_vars

\* The /ask route for callers that hold no credential, one request at a time,
\* with texts at the limits of the filter.
NextFilter ==
    \/ UNCHANGED hits /\ \E r \in Requests : Retire(r)
    \/ NoneInFlight /\ Admitted /\
          \E k \in {NoKey, ForgedKey}, p \in FilterPrompts : AskStart(k, p)
    \/ Quiet /\ UNCHANGED hits /\ \E r \in Requests : AskFetch(r)
    \/ Quiet /\ UNCHANGED hits /\ \E r \in Requests : AskFetchFail(r)
    \/ Quiet /\ UNCHANGED hits /\ \E r \in Requests : AskVerify(r)

SpecFilter == Init /\ [][NextFilter]_vars

-----------------------------------------------------------------------------
(* Claims *)

Status(r) == r.resp[1].status

\* the rows of the table whose digest the key verifies
Matching(key) == {i \in 1..Len(api_keys) : verify_key(key, api_keys[i].key_hash)}

\* C1: under any interleaving of /ask requests, no credential's uses exceeds
\* its max_uses.
C1_UsesWithinQuota ==
    \A i \in 1..Len(api_keys) : api_keys[i].uses <= api_keys[i].max_uses

\* C2: when the /ask requests run one after another, a request that presents
\* the token of an active credential that has not expired passes verification
\* while uses < max_uses and then adds exactly one to uses, and is answered
\* "Usage limit reached" without changing uses once uses = max_uses; uses
\* never passes max_uses.
C2_SequentialQuota ==
    /\ \A i \in 1..Len(api_keys) : api_keys[i].uses <= api_keys[i].max_uses
    /\ \A r \in Requests :
        (r.scanned /\ r.rows # <<>> /\ r.rows[1].expires_at >= now) =>
            LET row == r.rows[1] IN
            /\ api_keys[row.id].uses = row.uses + r.incs
            /\ IF row.uses < row.max_uses
               THEN /\ r.pc \in {"update", "audit", "respond", "done"}
                    /\ r.incs = (IF r.pc = "update" THEN 0 ELSE 1)
                       \/ (r.pc = "done" /\ r.incs = 0 /\ r.resp = <<ServerError>>)
                    /\ r.pc = "done" => Status(r) \in {200, 500}
               ELSE /\ r.pc = "done"
                    /\ r.resp = <<LimitReached>>
                    /\ r.incs = 0

\* C2 witness: a request was answered "Usage limit reached" after a request of
\* this run had used the last unit of the quota.
C2_Witness ==
    \E r \in Requests :
        /\ r.pc = "done"
        /\ r.resp = <<LimitReached>>
        /\ \E i \in Matching(r.key) :
            /\ api_keys[i].uses = api_keys[i].max_uses
            /\ \E a \in 1..Len(audit_logs) : audit_logs[a].api_key_id = api_keys[i].id

\* C3: a request that presents the token of an active credential whose
\* expires_at is earlier than the clock at its arrival is answered "API key
\* expired" by the verification, whether uses is below max_uses or not, and no
\* request for a credential already expired at its arrival increments uses or
\* is answered with the success payload or with "Usage limit reached".
C3_ExpiredIsReported ==
    \A r \in Requests :
        /\ (r.scanned /\ r.rows # <<>> /\ r.rows[1].expires_at < r.t0) =>
              r.pc = "done" /\ r.resp = <<KeyExpired>> /\ r.incs = 0
        /\ (\E i \in Matching(r.key) : api_keys[i].expires_at < r.t0) =>
              /\ r.incs = 0
              /\ r.pc = "done" => r.resp # <<LimitReached>> /\ Status(r) # 200

\* C3 witness: a credential with no quota left is reported as expired.
C3_Witness ==
    \E r \in Requests :
        /\ r.pc = "done"
        /\ r.resp = <<KeyExpired>>
        /\ r.rows[1].expires_at < r.t0
        /\ r.rows[1].uses >= r.rows[1].max_uses


\* C4: once a credential is revoked, no step increments its uses and no
\* request is answered with the success payload for it.
C4_RevokedNeverVerifies ==
    [][\A i \in 1..Len(api_keys) :
          api_keys[i].revoked =>
            /\ api_keys'[i].uses = api_keys[i].uses
            /\ \A r \in BagToSet(req') :
                 (r.pc = "done" /\ Status(r) = 200 /\
                    CopiesIn(r, req') > CopiesIn(r, req))
                    => r.api_key_id # api_keys[i].id]_vars

\* the active rows the key verifies, as the request found the table
ActiveMatching(key) == {i \in Matching(key) : ~api_keys[i].revoked}

\* the request carries no usable credential: no token, a token that matches
\* no active credential, or one expired or without quota
CredentialError(r) ==
    \/ r.key = NoKey
    \/ ActiveMatching(r.key) = {}
    \/ \E i \in ActiveMatching(r.key) :
          api_keys[i].expires_at < r.t0 \/ api_keys[i].uses >= api_keys[i].max_uses

\* C5: a missing token or a token that matches no active credential yields
\* 401, an expired or exhausted credential 403, a policy violation 400.
C5_StatusCodes ==
    \A r \in Requests :
        r.pc = "done" =>
          /\ (check_prompt(r.prompt) = NoError /\ r.key = NoKey) => Status(r) = 401
          /\ (r.scanned /\ r.rows = <<>>) => Status(r) = 401
          /\ (r.scanned /\ r.rows # <<>> /\
                (r.rows[1].expires_at < r.t0 \/ r.rows[1].uses >= r.rows[1].max_uses))
                => Status(r) = 403
          /\ check_prompt(r.prompt) # NoError => Status(r) = 400

\* C6, as stated: a request with a policy-violating text and no usable
\* credential is answered with the credential error.
C6_CredentialBeforePolicy ==
    \A r \in Requests :
        (r.pc = "done" /\ check_prompt(r.prompt) # NoError /\ CredentialError(r))
            => Status(r) \in {401, 403}

\* C6, amended: the policy filter runs before the credential is looked at: a
\* request with a policy-violating text is answered 400 with the filter's
\* reason whatever its credential, and never reads or changes the tables.
C6_PolicyBeforeCredential ==
    \A r \in Requests :
        check_prompt(r.prompt) # NoError =>
            /\ r.pc = "done"
            /\ r.resp = <<check_prompt(r.prompt)>>
            /\ Status(r) = 400
            /\ ~r.scanned /\ r.incs = 0 /\ r.audits = <<>> /\ r.calls = 0

\* C6 witness: a request with a policy-violating text and no usable credential
\* was answered 400.
C6_Witness ==
    \E r \in Requests :
        /\ r.pc = "done"
        /\ check_prompt(r.prompt) # NoError
        /\ CredentialError(r)
        /\ Status(r) = 400

\* C7: a request answered with the success payload has inserted exactly one
\* audit row, with the id and the email of the credential its token verifies
\* and the endpoint "/ask".
C7_SuccessIsAudited ==
    \A r \in Requests :
        (r.pc = "done" /\ Status(r) = 200) =>
            /\ Len(r.audits) = 1
            /\ Matching(r.key) # {}
            /\ \A i \in Matching(r.key) :
                 \E a \in 1..Len(audit_logs) :
                    /\ audit_logs[a].id = r.audits[1]
                    /\ audit_logs[a].api_key_id = api_keys[i].id
                    /\ audit_logs[a].email = api_keys[i].email
                    /\ audit_logs[a].endpoint = "/ask"
                    /\ r.resp[1].user = api_keys[i].email

\* C7 witness: a request was answered with the success payload.
C7_Witness ==
    \E r \in Requests : r.pc = "done" /\ Status(r) = 200

\* C8: a request whose audit write failed ends with a server error, and the
\* brains were not invoked for it.
C8_AuditFailureAborts ==
    \A r \in Requests :
        r.auditFailed =>
            /\ r.pc = "done"
            /\ r.resp = <<ServerError>>
            /\ r.calls = 0

\* C8 witness: the audit write of a request that had incremented uses failed.
C8_Witness ==
    \E r \in Requests : r.auditFailed /\ r.incs = 1

\* C9: every step leaves the audit rows it found as they were: the table
\* after the step extends the table before it.
C9_AuditAppendOnly ==
    [][/\ Len(audit_logs') >= Len(audit_logs)
       /\ SubSeq(audit_logs', 1, Len(audit_logs)) = audit_logs]_vars

\* C9 witness: a row was appended to a table that already held one of the
\* same credential.
C9_Witness ==
    \E a, b \in 1..Len(audit_logs) :
        a < b /\ audit_logs[a].api_key_id = audit_logs[b].api_key_id

\* the next step of the request r
AskStep(r) ==
    \/ AskFetch(r) \/ AskFetchFail(r) \/ AskVerify(r) \/ AskUpdate(r)
    \/ AskUpdateFail(r) \/ AskAudit(r) \/ AskAuditFail(r) \/ AskRespond(r)

\* C10: a request has at most one response, and exactly one when it has ended;
\* the response is the success payload or one error; the brains were invoked
\* once for a success and never for an error; a request that has not ended can
\* take its next step.
C10_ExactlyOneOutcome ==
    \A r \in Requests :
        /\ Len(r.resp) <= 1
        /\ r.pc = "done" <=> Len(r.resp) = 1
        /\ r.pc = "done" =>
             /\ Status(r) \in {200, 400, 401, 403, 500}
             /\ Status(r) = 200 => r.calls = 1
             /\ Status(r) # 200 => r.calls = 0
        /\ r.pc # "done" => r.calls = 0 /\ ENABLED AskStep(r)

\* C10 witness: a request of a user whose earlier request succeeded ended in
\* an error after its token was matched, and the memories hold the one prompt
\* of the earlier request.
C10_Witness ==
    \E r \in Requests :
        /\ r.pc = "done"
        /\ r.valid
        /\ Status(r) \in {403, 500}
        /\ Len(Memory(long_memory, r.email)) = 1
        /\ Len(Memory(short_memory, r.email)) = 1

-----------------------------------------------------------------------------
(* Claims on the limiter and on issuance *)

\* the window of caller c on the route is open and its quota is used up
Exhausted(c, route) ==
    /\ hits[c][route].count >= RouteLimit(route)
    /\ now < hits[c][route].reset

\* the credentials issued to caller c in the window the keys table is seen with
IssuedInWindow(keys, h, c) ==
    {i \in 1..Len(keys) : /\ keys[i].bound_ip = c
                          /\ keys[i].created >= h.reset - WINDOW_SECONDS
                          /\ keys[i].created < h.reset}

\* C11: once a caller has used up the quota of a route in the open window, a
\* further request of the caller on that route is answered RateLimited and does
\* not run the route: no credential is issued to the caller, no token is drawn
\* and the session is not set; in one window of /create_key at most 3
\* credentials are issued to a caller.
C11_RateLimited ==
    [][\A c \in Clients :
         /\ \A route \in {"register", "create_key"} :
              (Exhausted(c, route) /\ hits'[c][route] # hits[c][route])
                 => RateLimited(c, route)
         /\ Exhausted(c, "create_key") =>
              /\ \A i \in (Len(api_keys) + 1)..Len(api_keys') : api_keys'[i].bound_ip # c
              /\ nkeys' = nkeys
         /\ Exhausted(c, "register") => session'[c] = session[c]
         /\ Cardinality(IssuedInWindow(api_keys', hits'[c]["create_key"], c)) <= 3]_vars

\* C11 witness: the fourth /create_key request of a window was counted after
\* three credentials were issued to the caller in that window.
C11_Witness ==
    \E c \in Clients :
        /\ hits[c]["create_key"].count = 4
        /\ Cardinality(IssuedInWindow(api_keys, hits[c]["create_key"], c)) = 3

\* the columns of table api_keys
ApiKeyColumns == {"id", "email", "key_hash", "uses", "max_uses", "revoked",
                  "expires_at", "created", "bound_ip"}

\* C12: a step that adds to the credentials adds exactly one row and leaves
\* the rows it found as they were; the new row has a fresh id, the email of
\* the session of the caller it is bound to, uses = 0, max_uses = 1000,
\* expires_at = the clock + 30 days, revoked = false, and of the token only
\* the digest: key_hash is the digest of the token just drawn, and no other
\* column holds it.
C12_IssueAddsOne ==
    [][Len(api_keys') > Len(api_keys) =>
         /\ Len(api_keys') = Len(api_keys) + 1
         /\ SubSeq(api_keys', 1, Len(api_keys)) = api_keys
         /\ nkeys' = nkeys + 1
         /\ LET row == api_keys'[Len(api_keys')]
                token == generate_api_key(nkeys')
            IN /\ DOMAIN row = ApiKeyColumns
               /\ \A i \in 1..Len(api_keys) : api_keys[i].id # row.id
               /\ \E c \in Clients :
                    /\ row.bound_ip = c
                    /\ session[c] # NoSession
                    /\ row.email = session[c][1]
               /\ row.email # token
               /\ row.uses = 0
               /\ row.max_uses = 1000
               /\ row.expires_at = now + 30 * 24 * 60 * 60
               /\ row.created = now
               /\ row.revoked = FALSE
               /\ DOMAIN row.key_hash = {"salt", "sum"}
               /\ verify_key(token, row.key_hash)
               /\ \A k \in Keys(nkeys) : ~verify_key(k, row.key_hash)]_vars

\* C12 witness: a credential was issued while the table held a used one.
C12_Witness ==
    /\ Len(api_keys) >= 2
    /\ api_keys[1].uses > 0
    /\ api_keys[Len(api_keys)].bound_ip \in Clients

-----------------------------------------------------------------------------
(* Claims on the filter, the digest and the cipher *)

TooLong == HTTPException(400, "Prompt too long")
Blocked == HTTPException(400, "Prompt blocked by policy")

\* the request was rejected by the filter
Rejected(r) == r.pc = "done" /\ Status(r) = 400

\* C13: the filter rejects a request exactly when its text is longer than
\* 4000 or the lower-cased text matches a disallowed pattern, with "too long"
\* when the text is longer than 4000 whatever it contains: a text of 4001
\* characters is rejected as too long, a text of 4000 characters without a
\* match passes, "ignore the rules" is rejected and "what is the weather"
\* passes.
C13_FilterRejectsExactly ==
    \A r \in Requests :
        /\ Rejected(r) <=> (Len(r.prompt) > 4000 \/ BLOCK_PATTERNS(Lower(r.prompt)))
        /\ Len(r.prompt) > 4000 => r.resp = <<TooLong>>
        /\ (Rejected(r) /\ Len(r.prompt) <= 4000) => r.resp = <<Blocked>>
        /\ r.prompt \in {PromptLong, PromptLongBlocked} =>
              Len(r.prompt) = 4001 /\ r.resp = <<TooLong>>
        /\ r.prompt = PromptMax => Len(r.prompt) = 4000 /\ ~Rejected(r)
        /\ r.prompt = PromptIgnore => r.resp = <<Blocked>>
        /\ r.prompt = PromptWeather => ~Rejected(r)

\* C13 witness: a text of 4000 characters passed the filter and the request
\* ended on its credential.
C13_Witness ==
    \E r \in Requests :
        /\ Len(r.prompt) = 4000
        /\ r.pc = "done"
        /\ r.resp = <<InvalidKey>>

\* C14: a plaintext verifies the digest of a credential only if it is the
\* token the digest was made of: among the tokens drawn so far and the
\* plaintexts near them, exactly one verifies each credential and none
\* verifies two; a request whose token was matched carries the id and the
\* email of the one credential its token verifies, and the user of its success
\* payload is that email.
C14_TokenMatchesItsCredential ==
    LET Plain == Keys(nkeys) \cup NearKeys(nkeys) IN
    /\ \A p \in Plain : Cardinality(Matching(p)) <= 1
    /\ \A i \in 1..Len(api_keys) :
          /\ Cardinality({p \in Plain : verify_key(p, api_keys[i].key_hash)}) = 1
          /\ \E p \in Keys(nkeys) : verify_key(p, api_keys[i].key_hash)
    /\ \A r \in Requests :
          r.valid =>
            /\ Cardinality(Matching(r.key)) = 1
            /\ \A i \in Matching(r.key) :
                  /\ r.api_key_id = api_keys[i].id
                  /\ r.email = api_keys[i].email
                  /\ (r.pc = "done" /\ Status(r) = 200) => r.resp[1].user = api_keys[i].email

\* C14 witness: with two credentials of different owners in the table, a
\* request with the token of the second was answered with the second's owner.
C14_Witness ==
    \E r \in Requests :
        /\ Len(api_keys) >= 2
        /\ api_keys[1].email # api_keys[2].email
        /\ r.pc = "done"
        /\ Status(r) = 200
        /\ r.api_key_id = api_keys[2].id
        /\ r.resp[1].user = api_keys[2].email

\* the tokens that differ from blob in one byte: a byte of the sealed part, a
\* byte of the HMAC, or the last character of the encoding in its slack bits
Garbled == {<<"?", 0>>}
Modified(blob) ==
    {[blob EXCEPT !.sealed = <<@[1], Garbled>>],
     [blob EXCEPT !.mac = <<@[1], Garbled>>]}
        \cup {[blob EXCEPT !.slack = n] : n \in 1..3}

\* the metadata ask passes to record_audit
Metadata == {[prompt_len |-> Len(p)] : p \in Prompts}

\* C15: decrypt_data(encrypt_data(m)) = m for the metadata m; the meta of
\* every audit row decrypts to the metadata it was recorded with, the prompt
\* length of its request; decrypt_data of a token with one modified byte
\* raises instead of returning metadata.
C15_CipherRoundTrip ==
    /\ \A m \in Metadata :
          decrypt_data(encrypt_data(m)) = [raised |-> FALSE, value |-> m]
    /\ \A a \in 1..Len(audit_logs) :
          LET blob == audit_logs[a].meta
              d == decrypt_data(blob)
          IN /\ ~d.raised
             /\ d.value \in Metadata
             /\ \A r \in Requests :
                  (\E k \in 1..Len(r.audits) : r.audits[k] = audit_logs[a].id)
                     => d.value = [prompt_len |-> Len(r.prompt)]
             /\ \A t \in Modified(blob) : decrypt_data(t).raised

-----------------------------------------------------------------------------
(* Claims on the effects of ask *)

\* the responses of a request refused for its text or its credential
Refusals == {TooLong, Blocked, MissingKey, InvalidKey, KeyExpired, LimitReached}

Refused(r) == r.pc = "done" /\ r.resp[1] \in Refusals

\* C16: a request refused for its text or its credential (policy violation,
\* missing key, invalid key, expired, quota reached) has executed no UPDATE
\* and inserted no audit row, and the step that refuses it leaves the tables
\* users, api_keys and audit_logs as they were.
C16_RefusalChangesNothing ==
    [][\A r \in BagToSet(req') :
         Refused(r) =>
            /\ r.incs = 0
            /\ r.audits = <<>>
            /\ r.calls = 0
            /\ CopiesIn(r, req') > CopiesIn(r, req) =>
                  /\ users' = users
                  /\ api_keys' = api_keys
                  /\ audit_logs' = audit_logs]_vars

\* C16 witness: a request with the token of a credential without quota left
\* was refused, and the credential's uses is at its ceiling.
C16_Witness ==
    \E r \in Requests :
        /\ Refused(r)
        /\ r.resp = <<LimitReached>>
        /\ \A i \in Matching(r.key) : api_keys[i].uses = api_keys[i].max_uses

\* C17, as stated: the brains are invoked before the audit row is written: no
\* audit row of a request exists before the brains were invoked for it.
C17_DownstreamBeforeAudit ==
    \A r \in Requests : r.audits # <<>> => r.calls >= 1

\* C17, amended: the audit row is written before the brains are invoked: the
\* brains are invoked for a request only when its one audit row is in the
\* table, and a request whose audit row is written and whose brains were not
\* yet invoked is about to invoke them.
C17_AuditBeforeDownstream ==
    \A r \in Requests :
        /\ r.calls >= 1 =>
              /\ r.calls = 1
              /\ Len(r.audits) = 1
              /\ \E a \in 1..Len(audit_logs) :
                    /\ audit_logs[a].id = r.audits[1]
                    /\ audit_logs[a].api_key_id = r.api_key_id
        /\ (r.audits # <<>> /\ r.calls = 0) => r.pc = "respond"

\* C17 witness: the audit row of a request is in the table and the brains
\* were not yet invoked for it.
C17_Witness ==
    \E r \in Requests :
        /\ r.pc = "respond"
        /\ r.calls = 0
        /\ \E a \in 1..Len(audit_logs) : audit_logs[a].id = r.audits[1]

\* the step executes the UPDATE of a request for the credential id: the
\* request's count of executed UPDATEs goes up by one
ExecutesIncrement(id) ==
    \E r \in BagToSet(req), r2 \in BagToSet(req') :
        /\ r.api_key_id = id
        /\ r2.api_key_id = id
        /\ r2.incs = r.incs + 1
        /\ r2 = [r EXCEPT !.pc = r2.pc, !.incs = r2.incs]
        /\ CopiesIn(r, req') < CopiesIn(r, req)
        /\ CopiesIn(r2, req') > CopiesIn(r2, req)

\* C18: no step decreases the uses of a credential; a step adds one to it
\* exactly when it executes the UPDATE of one request for that credential, and
\* changes it in no other case, so that under every interleaving uses is the
\* number of UPDATEs executed; a request executes at most one UPDATE, and
\* exactly one when it is answered with the success payload.
C18_UsesCountsIncrements ==
    [][/\ \A i \in 1..Len(api_keys) :
            LET d == api_keys'[i].uses - api_keys[i].uses IN
            /\ d \in {0, 1}
            /\ d = 1 <=> ExecutesIncrement(api_keys[i].id)
       /\ \A r \in BagToSet(req') :
            /\ r.incs <= 1
            /\ (r.pc = "done" /\ Status(r) = 200) => r.incs = 1]_vars

\* C18 witness: two requests in flight have each executed their UPDATE on the
\* same credential, and its uses is two above what they read.
C18_Witness ==
    \E r \in Requests :
        /\ r.incs = 1
        /\ \E i \in 1..Len(api_keys) :
              /\ api_keys[i].id = r.api_key_id
              /\ api_keys[i].uses = r.rows[1].uses + 2
        /\ \E r2 \in Requests :
              /\ r2.api_key_id = r.api_key_id
              /\ r2.incs = 1
              /\ (r2 # r \/ CopiesIn(r, req) = 2)

\* C19: every step keeps the credentials it found, in place, with their id,
\* email, key_hash, max_uses, expires_at, created and bound_ip; no step sets
\* revoked of a credential from true back to false.
C19_CredentialFieldsFrozen ==
    [][/\ Len(api_keys') >= Len(api_keys)
       /\ \A i \in 1..Len(api_keys) :
            /\ api_keys'[i] = [api_keys[i] EXCEPT !.uses = api_keys'[i].uses,
                                                  !.revoked = api_keys'[i].revoked]
            /\ api_keys[i].revoked => api_keys'[i].revoked]_vars

\* C19 witness: a credential issued in this run to a registered caller has
\* been used since, and holds the expiry it was issued with.
C19_Witness ==
    \E i \in 1..Len(api_keys) :
        /\ api_keys[i].bound_ip \in Clients
        /\ api_keys[i].uses >= 1
        /\ api_keys[i].expires_at = api_keys[i].created + ExpireSeconds

\* the audit rows that reference the credential id
AuditsOf(id) == {a \in 1..Len(audit_logs) : audit_logs[a].api_key_id = id}

\* C20: in every state, the audit rows that reference a credential are at
\* most as many as its uses, and every audit row references a credential of
\* the table.
C20_AuditsWithinUses ==
    /\ \A i \in 1..Len(api_keys) :
          Cardinality(AuditsOf(api_keys[i].id)) <= api_keys[i].uses
    /\ \A a \in 1..Len(audit_logs) :
          \E i \in 1..Len(api_keys) : api_keys[i].id = audit_logs[a].api_key_id

\* C20 witness: a credential issued in this run has one use and one audit row.
C20_Witness ==
    \E i \in 1..Len(api_keys) :
        /\ api_keys[i].created >= StartTime
        /\ api_keys[i].uses = 1
        /\ Cardinality(AuditsOf(api_keys[i].id)) = 1

====
